---- MODULE Spec2Model ----
(***************************************************************************)
(* A model of the todo Service (internal/todo/todo.go) and of the          *)
(* Repository it persists through.  One action per public operation of     *)
(* the Service.  A call that can change the Service or the Repository      *)
(* records itself and its result in `last' and `ret'; the four reads       *)
(* assign nothing (as in the code) and their results are operators over    *)
(* the state.                                                              *)
(*                                                                         *)
(* Further down: the JSONRepository (internal/storage) with its own        *)
(* specification SpecJSON, Stats.CompletionRate (SpecRate) and the delete  *)
(* command of internal/cli (SpecCli).                                      *)
(***************************************************************************)
EXTENDS Integers, Sequences, FiniteSets

\* Add is not called once nextID has passed MaxID (caps the identifier counter).
MaxID == 3

\* At most MaxUnsaved Saves fail in a row (caps how far memory and storage drift).
MaxUnsaved == 2

\* The descriptions callers pass to Add; "" is the empty description.
Descriptions == {"", "a"}

\* The instants time.Now() may return.  The program never compares two times.
Times == {"t1"}

\* The identifiers callers pass: 0 is never assigned, 1..MaxID may be.
IdArgs == 0..MaxID

\* The longest Collection found in storage that was not written by this model's
\* Service.
MaxLen == 3

VARIABLES
    todos,        \* Service.todos: the in-memory Collection
    nextID,       \* Service.nextID
    stored,       \* the Collection held by the Repository (MockRepository.todos)
    last,         \* the last mutating call: operation, arguments, error, what Save did
    ret,          \* the item that call returned (<<>>: nil or none)
    pre,          \* Service.todos as it was when that call started
    unsaved,      \* history: Saves failed since the last successful Save or restart
    watch,        \* which of the histories below a run keeps (fixed by Init)
    added,        \* "ids": the current Service has assigned an identifier
    maxReturned,  \* "ids": the largest identifier Add has returned in this Service
    completedOK,  \* "done": about the identifier watch.id, see Complete
    deleted,      \* "gone": about the identifier watch.id, see Delete
    assigned,     \* "reuse": about the identifier watch.id, see Add
    printed,      \* what the process has written to its standard output
    file,         \* the file of the JSONRepository
    given,        \* the Collection passed to the last JSONRepository.Save
    loaded        \* what the last JSONRepository.Load returned

vars == <<todos, nextID, stored, last, ret, pre, unsaved, watch, added,
          maxReturned, completedOK, deleted, assigned, printed, file, given, loaded>>

\* What the operations of the Service leave alone: its methods print nothing,
\* and the Repository they call is the one that holds `stored'.
aside == <<printed, file, given, loaded>>

\* What the Service and its histories leave to the JSONRepository.
jsonVars == <<file, given, loaded>>

(***************************************************************************)
(* Data                                                                    *)
(***************************************************************************)

\* A *time.Time is modelled as a sequence of at most one instant: <<>> is nil.
NilTime == <<>>

\* A bug Add could have: the identifier taken from the length of the Collection.
NewTodoByLength(id, description, now) ==
    [ID |-> Len(todos) + 1, Description |-> description, Completed |-> FALSE,
     CreatedAt |-> now, CompletedAt |-> NilTime]

\* A bug Add could have: the new item created completed.
NewTodoCompleted(id, description, now) ==
    [ID |-> id, Description |-> description, Completed |-> TRUE,
     CreatedAt |-> now, CompletedAt |-> <<now>>]

\* todo.go, Add: the composite literal Todo{...}; CompletedAt is left nil.
NewTodo(id, description, now) ==
    [ID |-> id, Description |-> description, Completed |-> FALSE,
     CreatedAt |-> now, CompletedAt |-> NilTime]

\* The loop of GetByID and of Delete: the first index whose ID matches, 0 if none.
IndexOf(ts, id) ==
    IF \E i \in 1..Len(ts) : ts[i].ID = id
    THEN CHOOSE i \in 1..Len(ts) :
            /\ ts[i].ID = id
            /\ \A j \in 1..(i - 1) : ts[j].ID # id
    ELSE 0

\* A bug Complete could have: the flag set, the timestamp forgotten.
MarkCompletedNoStamp(t, now) == [t EXCEPT !.Completed = TRUE]

\* A bug Complete could have: the timestamp set, the flag forgotten.
MarkCompletedKeepFlag(t, now) == [t EXCEPT !.CompletedAt = <<now>>]

\* A bug Complete could have: a new Todo written over the item, which keeps the
\* identifier and loses the description.
MarkCompletedAnew(t, now) ==
    [ID |-> t.ID, Description |-> "", Completed |-> TRUE, CreatedAt |-> now,
     CompletedAt |-> <<now>>]

\* Complete: todo.Completed = true; todo.CompletedAt = &now.
MarkCompleted(t, now) == [t EXCEPT !.Completed = TRUE, !.CompletedAt = <<now>>]

\* A bug Incomplete could have: the flag cleared, the timestamp kept.
MarkIncompleteKeepStamp(t) == [t EXCEPT !.Completed = FALSE]

\* Incomplete: todo.Completed = false; todo.CompletedAt = nil.
MarkIncomplete(t) == [t EXCEPT !.Completed = FALSE, !.CompletedAt = NilTime]

\* A bug Delete could have: the slice cut one place too far.
RemoveAfter(ts, i) == SubSeq(ts, 1, i) \o SubSeq(ts, i + 2, Len(ts))

\* Delete: append(s.todos[:i], s.todos[i+1:]...), i counted from 1 here.
RemoveAt(ts, i) == SubSeq(ts, 1, i - 1) \o SubSeq(ts, i + 1, Len(ts))

\* A bug GetByStatus could have: each match put before those found so far.
RECURSIVE FilterByStatusPrepending(_, _)
FilterByStatusPrepending(ts, completed) ==
    IF ts = <<>> THEN <<>>
    ELSE LET rest == FilterByStatusPrepending(Tail(ts), completed)
         IN  IF Head(ts).Completed = completed THEN rest \o <<Head(ts)>> ELSE rest

\* GetByStatus: the loop appending every todo whose flag equals the argument.
RECURSIVE FilterByStatus(_, _)
FilterByStatus(ts, completed) ==
    IF ts = <<>> THEN <<>>
    ELSE LET rest == FilterByStatus(Tail(ts), completed)
         IN  IF Head(ts).Completed = completed THEN <<Head(ts)>> \o rest ELSE rest

\* GetStats: Total is len(s.todos); the loop counts each flag.
RECURSIVE CountCompleted(_)
CountCompleted(ts) ==
    IF ts = <<>> THEN 0
    ELSE (IF Head(ts).Completed THEN 1 ELSE 0) + CountCompleted(Tail(ts))

\* A bug GetStats could have: Pending counted for every todo, not in the else.
CountPendingEvery(ts) == Len(ts)

RECURSIVE CountPending(_)
CountPending(ts) ==
    IF ts = <<>> THEN 0
    ELSE (IF Head(ts).Completed THEN 0 ELSE 1) + CountPending(Tail(ts))

GetStatsOf(ts) ==
    [Total |-> Len(ts), Completed |-> CountCompleted(ts), Pending |-> CountPending(ts)]

\* A bug loadTodos could have: > where >= is needed.
RECURSIVE ScanNextIDStrict(_, _)
ScanNextIDStrict(ts, n) ==
    IF ts = <<>> THEN n
    ELSE ScanNextIDStrict(Tail(ts), IF Head(ts).ID > n THEN Head(ts).ID + 1 ELSE n)

\* A bug loadTodos could have: the Collection taken to be in ascending order.
ScanNextIDLast(ts, n) == IF ts = <<>> THEN n ELSE ts[Len(ts)].ID + 1

\* loadTodos: for each loaded todo, if todo.ID >= s.nextID then s.nextID = todo.ID + 1.
RECURSIVE ScanNextID(_, _)
ScanNextID(ts, n) ==
    IF ts = <<>> THEN n
    ELSE ScanNextID(Tail(ts), IF Head(ts).ID >= n THEN Head(ts).ID + 1 ELSE n)

(***************************************************************************)
(* The Repository (MockRepository): Save copies the slice it is given into *)
(* the repository unless it fails; Load returns a copy of what is held.    *)
(***************************************************************************)

\* A bug Save could have: the new Collection appended to what is held.
SaveAppending(held, ts, ok) == IF ok THEN held \o ts ELSE held

\* A bug Save could have: the Collection written although the error is returned.
SaveDespiteError(held, ts, ok) == ts

\* MockRepository.Save: on error nothing is written.
SaveTo(held, ts, ok) == IF ok THEN ts ELSE held

\* A bug Load could have: nothing of what is held is returned.
LoadNothing(held) == <<>>

\* MockRepository.Load.
LoadFrom(held) == held

(***************************************************************************)
(* The record of a call                                                    *)
(***************************************************************************)

NoErr == ""
ErrInvalidInput == "InvalidInput"
ErrNotFound == "NotFound"
ErrAlreadyInState == "AlreadyInState"
ErrSaveFailed == "SaveFailed"

\* save: "none" (Save was not called), "ok", "failed".
Call(op, id, desc, err, save) ==
    [op |-> op, id |-> id, desc |-> desc, err |-> err, save |-> save]

SaveOutcome(ok) == IF ok THEN "ok" ELSE "failed"

\* A bug the mutating operations could have: the error of save() dropped.
SaveErrorDropped(ok) == NoErr

\* Add wraps the error of save(); Complete, Incomplete and Delete return it as is.
SaveError(ok) == IF ok THEN NoErr ELSE ErrSaveFailed

\* A Save may fail only while fewer than MaxUnsaved have failed in a row.
MayFail(ok) == ok \/ unsaved < MaxUnsaved

UnsavedAfter(ok) == IF ok THEN 0 ELSE unsaved + 1

(***************************************************************************)
(* Init: NewService over a repository that holds nothing.                  *)
(***************************************************************************)

\* No Add has assigned the identifier watched.
NotAssigned == [here |-> "no", earlier |-> FALSE]

\* The JSONRepository before any call: no file at its filename, nothing loaded.
NoFile == [exists |-> FALSE, data |-> <<>>]
NotLoaded == [todos |-> <<>>, err |-> "none"]

InitService ==
    /\ todos = <<>>
    /\ nextID = 1
    /\ stored = <<>>
    /\ last = Call("NewService", 0, "", NoErr, "none")
    /\ ret = <<>>
    /\ pre = <<>>
    /\ added = FALSE
    /\ maxReturned = 0
    /\ completedOK = "no"
    /\ deleted = "no"
    /\ assigned = NotAssigned
    /\ unsaved = 0
    /\ printed = <<>>
    /\ file = NoFile
    /\ given = <<>>
    /\ loaded = NotLoaded

Watch(kind, id) == [kind |-> kind, id |-> id]

Init == InitService /\ watch = Watch("calls", 0)

\* What a run records of a call.  A run that watches the calls records every
\* call; one that watches the identifiers records the Add calls; one that watches
\* an identifier records the Complete calls that name it.  Any other call is
\* recorded as Other.
Other == Call("other", 0, "", NoErr, "none")

Relevant(c) ==
    \/ watch.kind = "calls"
    \/ watch.kind \in {"ids", "reuse"} /\ c.op = "Add"
    \/ watch.kind = "done" /\ c.op = "Complete" /\ c.id = watch.id

Record(c) == IF Relevant(c) THEN c ELSE Other

\* The returned item and the Collection before the call, where they are recorded.
Returned(items) == IF watch.kind \in {"calls", "ids"} THEN items ELSE <<>>
Before(ts) == IF watch.kind = "calls" THEN ts ELSE <<>>

\* A history is updated only in the runs that keep it.
Keep(w, new, old) == IF watch.kind = w THEN new ELSE old

\* The same, for the history of one identifier.
KeepFor(w, id, new, old) == IF watch = Watch(w, id) THEN new ELSE old

(***************************************************************************)
(* The reads: GetAll, GetByStatus, GetByID, GetStats.  None assigns a      *)
(* field of the Service or calls the Repository.                           *)
(***************************************************************************)

GetAll == todos

GetByStatus(completed) == FilterByStatus(todos, completed)

\* A bug GetByID could have: the address of the first element returned.
GetByIDInFirst(ts, id) ==
    LET i == IndexOf(ts, id)
    IN  IF i = 0 THEN [item |-> <<>>, err |-> ErrNotFound]
        ELSE [item |-> <<ts[1]>>, err |-> NoErr]

\* GetByID on the Collection ts.  (*Todo, error): item is <<>> for a nil pointer.
GetByIDIn(ts, id) ==
    LET i == IndexOf(ts, id)
    IN  IF i = 0 THEN [item |-> <<>>, err |-> ErrNotFound]
        ELSE [item |-> <<ts[i]>>, err |-> NoErr]

GetByID(id) == GetByIDIn(todos, id)

GetStats == GetStatsOf(todos)

CallGetAll == Len(GetAll) >= 0 /\ UNCHANGED vars

CallGetByStatus(completed) == Len(GetByStatus(completed)) >= 0 /\ UNCHANGED vars

CallGetByID(id) == GetByID(id).err \in {NoErr, ErrNotFound} /\ UNCHANGED vars

CallGetStats == GetStats.Total >= 0 /\ UNCHANGED vars

(***************************************************************************)
(* Service.Add                                                             *)
(***************************************************************************)

\* A bug the operations could have: save() called before the checks.
RejectedAfterSave(op, id, desc, err) ==
    /\ last' = Record(Call(op, id, desc, err, "ok"))
    /\ ret' = <<>>
    /\ pre' = Before(todos)
    /\ stored' = todos
    /\ UNCHANGED <<todos, nextID, unsaved, watch, added, maxReturned, deleted, assigned, aside>>

\* A call that returns before it changes anything.
Rejected(op, id, desc, err) ==
    /\ last' = Record(Call(op, id, desc, err, "none"))
    /\ ret' = <<>>
    /\ pre' = Before(todos)
    /\ UNCHANGED <<todos, nextID, stored, unsaved, watch, added, maxReturned, deleted, assigned, aside>>

\* A bug Add could have: no check of the description.
NeverInvalid(description) == FALSE

\* Add: if description == "".
InvalidDescription(description) == description = ""

Add(description, now, saveOK) ==
    IF InvalidDescription(description)
    THEN Rejected("Add", 0, description, ErrInvalidInput) /\ UNCHANGED completedOK
    ELSE /\ nextID <= MaxID
         /\ MayFail(saveOK)
         /\ LET todo == NewTodo(nextID, description, now)
            IN  /\ todos' = Append(todos, todo)
                /\ nextID' = nextID + 1
                /\ stored' = SaveTo(stored, todos', saveOK)
                /\ last' = Record(Call("Add", 0, description, SaveError(saveOK),
                                SaveOutcome(saveOK)))
                /\ ret' = Returned(IF saveOK THEN <<todo>> ELSE <<>>)
                /\ pre' = Before(todos)
                /\ unsaved' = UnsavedAfter(saveOK)
                /\ added' = Keep("ids", TRUE, added)
                /\ maxReturned' = Keep("ids", IF saveOK /\ todo.ID > maxReturned
                                               THEN todo.ID ELSE maxReturned,
                                       maxReturned)
                /\ assigned' = KeepFor("reuse", todo.ID,
                                        [assigned EXCEPT !.here = IF saveOK THEN "returned"
                                                                  ELSE "kept"],
                                        assigned)
                /\ UNCHANGED <<watch, completedOK, deleted, aside>>

(***************************************************************************)
(* Service.Complete, Service.Incomplete, Service.Delete                    *)
(*                                                                         *)
(* completedOK[id] is "yes" once Complete(id) has returned success and     *)
(* Incomplete(id) has not been called since; it becomes "deleted" when     *)
(* Delete(id) removes the item meanwhile, and "no" when Incomplete(id) is  *)
(* called.                                                                 *)
(*                                                                         *)
(* deleted is "here" once Delete(watch.id) has removed the item from the   *)
(* Collection of this Service; when the Service is constructed anew it     *)
(* becomes "earlier" if the stored Collection does not hold the item       *)
(* either, and "no" if it still does (the removal was never saved).        *)
(*                                                                         *)
(* assigned.here is "returned" once an Add of this Service has given the   *)
(* identifier watch.id to an item and returned it, "kept" if its Save      *)
(* failed (the item is kept in memory, Add returns an error);              *)
(* assigned.earlier holds once an Add of an earlier Service over the same  *)
(* storage has returned an item with that identifier.                      *)
(***************************************************************************)

Complete(id, now, saveOK) ==
    LET i == IndexOf(todos, id)
    IN  IF i = 0
        THEN Rejected("Complete", id, "", ErrNotFound) /\ UNCHANGED completedOK
        ELSE IF todos[i].Completed
        THEN Rejected("Complete", id, "", ErrAlreadyInState) /\ UNCHANGED completedOK
        ELSE /\ MayFail(saveOK)
             /\ todos' = [todos EXCEPT ![i] = MarkCompleted(todos[i], now)]
             /\ stored' = SaveTo(stored, todos', saveOK)
             /\ last' = Record(Call("Complete", id, "", SaveError(saveOK), SaveOutcome(saveOK)))
             /\ ret' = <<>>
             /\ pre' = Before(todos)
             /\ completedOK' = KeepFor("done", id, IF saveOK THEN "yes" ELSE completedOK,
                                        completedOK)
             /\ unsaved' = UnsavedAfter(saveOK)
             /\ UNCHANGED <<nextID, watch, added, maxReturned, deleted, assigned, aside>>

Incomplete(id, saveOK) ==
    LET i == IndexOf(todos, id)
    IN  /\ completedOK' = KeepFor("done", id, "no", completedOK)
        /\ IF i = 0
           THEN Rejected("Incomplete", id, "", ErrNotFound)
           ELSE IF ~todos[i].Completed
           THEN Rejected("Incomplete", id, "", ErrAlreadyInState)
           ELSE /\ MayFail(saveOK)
                /\ todos' = [todos EXCEPT ![i] = MarkIncomplete(todos[i])]
                /\ stored' = SaveTo(stored, todos', saveOK)
                /\ last' = Record(Call("Incomplete", id, "", SaveError(saveOK),
                                SaveOutcome(saveOK)))
                /\ ret' = <<>>
                /\ pre' = Before(todos)
                /\ unsaved' = UnsavedAfter(saveOK)
                /\ UNCHANGED <<nextID, watch, added, maxReturned, deleted, assigned, aside>>

Delete(id, saveOK) ==
    LET i == IndexOf(todos, id)
    IN  IF i = 0
        THEN Rejected("Delete", id, "", ErrNotFound) /\ UNCHANGED completedOK
        ELSE /\ MayFail(saveOK)
             /\ todos' = RemoveAt(todos, i)
             /\ stored' = SaveTo(stored, todos', saveOK)
             /\ last' = Record(Call("Delete", id, "", SaveError(saveOK), SaveOutcome(saveOK)))
             /\ ret' = <<>>
             /\ pre' = Before(todos)
             /\ completedOK' = KeepFor("done", id, IF completedOK = "yes" THEN "deleted"
                                                    ELSE completedOK,
                                        completedOK)
             /\ deleted' = KeepFor("gone", id, "here", deleted)
             /\ unsaved' = UnsavedAfter(saveOK)
             /\ UNCHANGED <<nextID, watch, added, maxReturned, assigned, aside>>

(***************************************************************************)
(* NewService over the same repository (a restart of the process).  When   *)
(* Load fails, NewService prints a warning and keeps the empty Service.    *)
(***************************************************************************)

\* A bug loadTodos could have: the error of Load not checked before the fields
\* are assigned from what was read.
LoadTodosUnchecked(held, loadOK) ==
    [todos |-> LoadFrom(held), nextID |-> ScanNextID(LoadFrom(held), 1)]

\* loadTodos after the literal of NewService: the fields are assigned only when
\* Load returns no error; otherwise they keep make([]Todo, 0) and 1.
LoadTodos(held, loadOK) ==
    IF loadOK
    THEN [todos |-> LoadFrom(held), nextID |-> ScanNextID(LoadFrom(held), 1)]
    ELSE [todos |-> <<>>, nextID |-> 1]

\* fmt.Printf("Warning: could not load existing todos: %v\n", err).
LoadWarning == "Warning: could not load existing todos"

NewService(loadOK) ==
    /\ todos' = LoadTodos(stored, loadOK).todos
    /\ nextID' = LoadTodos(stored, loadOK).nextID
    /\ printed' = IF loadOK THEN <<>> ELSE <<LoadWarning>>
    /\ last' = Record(Call("NewService", 0, "", NoErr, "none"))
    /\ ret' = <<>>
    /\ pre' = <<>>
    /\ unsaved' = 0
    /\ added' = FALSE
    /\ maxReturned' = 0
    /\ deleted' = Keep("gone", IF deleted = "here"
                                THEN (IF IndexOf(stored, watch.id) = 0 THEN "earlier"
                                      ELSE "no")
                                ELSE deleted,
                        deleted)
    /\ assigned' = Keep("reuse", [here |-> "no",
                                   earlier |-> assigned.earlier \/ assigned.here = "returned"],
                         assigned)
    /\ UNCHANGED <<stored, watch, completedOK, jsonVars>>

(***************************************************************************)
(* Spec: any sequence of calls from absent prior data; a Save may fail;    *)
(* the repository stays readable, so the Load of a restart succeeds.       *)
(***************************************************************************)

Calls ==
    \/ \E d \in Descriptions, now \in Times, ok \in BOOLEAN : Add(d, now, ok)
    \/ CallGetAll
    \/ \E c \in BOOLEAN : CallGetByStatus(c)
    \/ \E id \in IdArgs : CallGetByID(id)
    \/ CallGetStats
    \/ \E id \in IdArgs, now \in Times, ok \in BOOLEAN : Complete(id, now, ok)
    \/ \E id \in IdArgs, ok \in BOOLEAN : Incomplete(id, ok)
    \/ \E id \in IdArgs, ok \in BOOLEAN : Delete(id, ok)

Next == Calls \/ NewService(TRUE)

Spec == Init /\ [][Next]_vars

\* The same program, keeping the history of the identifiers Add returned.
InitIds == InitService /\ watch = Watch("ids", 0)
SpecIds == InitIds /\ [][Calls]_vars

\* The same program, keeping the history of the Complete calls that succeeded.
InitDone == InitService /\ \E id \in 1..MaxID : watch = Watch("done", id)
SpecDone == InitDone /\ [][Next]_vars

\* The same program, keeping the history of the Delete calls on one identifier.
InitGone == InitService /\ \E id \in 1..MaxID : watch = Watch("gone", id)
SpecGone == InitGone /\ [][Next]_vars

\* The same program, keeping the history of the Add calls that assigned one
\* identifier.
InitReuse == InitService /\ \E id \in 1..MaxID : watch = Watch("reuse", id)
SpecReuse == InitReuse /\ [][Next]_vars

\* NewService over any Collection a Repository may hold: the identifiers are
\* positive, in any order; an item is pending or completed.
StoredItems ==
    {[ID |-> id, Description |-> "a", Completed |-> c, CreatedAt |-> "t1",
      CompletedAt |-> IF c THEN <<"t1">> ELSE NilTime] :
        id \in 1..MaxID, c \in BOOLEAN}

StoredCollections == UNION {[1..n -> StoredItems] : n \in 0..MaxLen}

InitScan ==
    /\ todos = <<>>
    /\ nextID = 1
    /\ stored \in StoredCollections
    /\ last = Other
    /\ ret = <<>>
    /\ pre = <<>>
    /\ added = FALSE
    /\ maxReturned = 0
    /\ completedOK = "no"
    /\ deleted = "no"
    /\ assigned = NotAssigned
    /\ unsaved = 0
    /\ printed = <<>>
    /\ file = NoFile
    /\ given = <<>>
    /\ loaded = NotLoaded
    /\ watch = Watch("calls", 0)

SpecScan == InitScan /\ [][NewService(TRUE)]_vars

\* The same program over a repository whose Load may fail (MockRepository.loadErr,
\* an unreadable or corrupt file): a restart may find nothing.
NextLoad == Calls \/ \E loadOK \in BOOLEAN : NewService(loadOK)
SpecLoad == Init /\ [][NextLoad]_vars

(***************************************************************************)
(* The JSONRepository (internal/storage): Save marshals the Collection and *)
(* writes the file; Load reads the file and unmarshals it.                 *)
(*                                                                         *)
(* A Go string is a sequence of bytes: it is modelled as a sequence of     *)
(* units, "a" a character, "xFF" a byte that is not valid UTF-8, "uFFFD"   *)
(* the replacement character.  A time.Time is an instant (wall) and        *)
(* whether it carries a monotonic clock reading, as time.Now() does.       *)
(* A JSON text is modelled by its value: kind "garbage" is a text that is  *)
(* not JSON.                                                               *)
(***************************************************************************)

\* The longest Collection passed to JSONRepository.Save.
MaxSaved == 2

JSONDescriptions == {<<"a">>, <<"xFF">>}

\* time.Now().
Now == [wall |-> "t1", mono |-> TRUE]

\* The zero time.Time.
ZeroTime == [wall |-> "zero", mono |-> FALSE]

\* Time.Equal: the same instant, whatever the monotonic reading.
Equal(t, u) == t.wall = u.wall

\* The items Save is given: the item i of a Collection has the identifier i.
JSONTodo(id, description, completed) ==
    [ID |-> id, Description |-> description, Completed |-> completed,
     CreatedAt |-> Now, CompletedAt |-> IF completed THEN <<Now>> ELSE NilTime]

JSONCollections ==
    UNION {{[i \in 1..n |-> JSONTodo(i, d[i], c[i])] :
               d \in [1..n -> JSONDescriptions], c \in [1..n -> BOOLEAN]} :
           n \in 0..MaxSaved}

\* JSON values.
JNull == [kind |-> "null"]
JNumber(n) == [kind |-> "number", val |-> n]
JBool(b) == [kind |-> "bool", val |-> b]
JString(units) == [kind |-> "string", val |-> units]
JObject(fields) == [kind |-> "object", fields |-> fields]
JArray(elems) == [kind |-> "array", elems |-> elems]
Garbage == [kind |-> "garbage"]

\* encoding/json, strings: "coerced to valid UTF-8, replacing invalid bytes with
\* the Unicode replacement rune".
ToValidUTF8(units) == [i \in 1..Len(units) |-> IF units[i] = "xFF" THEN "uFFFD" ELSE units[i]]

\* Time.MarshalJSON: the RFC 3339 text of the instant; a monotonic reading is
\* not part of the text.
FormatTime(t) == JString(<<"time", t.wall>>)

\* Time.UnmarshalJSON: the text must be an RFC 3339 time.
IsTimeText(v) == v.kind = "string" /\ Len(v.val) = 2 /\ v.val[1] = "time"
ParseTime(v) == [wall |-> v.val[2], mono |-> FALSE]

\* json.Marshal of a Todo: completed_at has omitempty and is left out when nil.
MarshalTodo(t) ==
    LET always == {"id", "description", "completed", "created_at"}
        keys == IF t.CompletedAt = NilTime THEN always ELSE always \cup {"completed_at"}
    IN  JObject([k \in keys |->
            CASE k = "id" -> JNumber(t.ID)
              [] k = "description" -> JString(ToValidUTF8(t.Description))
              [] k = "completed" -> JBool(t.Completed)
              [] k = "created_at" -> FormatTime(t.CreatedAt)
              [] k = "completed_at" -> FormatTime(t.CompletedAt[1])])

\* json.MarshalIndent(todos, "", "  ").
MarshalIndent(c) == JArray([i \in 1..Len(c) |-> MarshalTodo(c[i])])

\* The zero Todo, which Unmarshal fills from the keys it finds.
ZeroTodo ==
    [ID |-> 0, Description |-> <<>>, Completed |-> FALSE, CreatedAt |-> ZeroTime,
     CompletedAt |-> NilTime]

\* json.Unmarshal into a Todo: null leaves the zero Todo; an object sets the
\* fields whose keys it has (null leaves a field as it is); anything of the
\* wrong type is an error, and the field or the element stays zero.
UnmarshalTodo(e) ==
    IF e.kind = "null" THEN [ok |-> TRUE, todo |-> ZeroTodo]
    ELSE IF e.kind # "object" THEN [ok |-> FALSE, todo |-> ZeroTodo]
    ELSE LET f == e.fields
             has(k) == k \in DOMAIN f /\ f[k].kind # "null"
             good(k) == CASE k = "id" -> f[k].kind = "number"
                          [] k = "description" -> f[k].kind = "string"
                          [] k = "completed" -> f[k].kind = "bool"
                          [] OTHER -> IsTimeText(f[k])
             set(k) == has(k) /\ good(k)
             known == {"id", "description", "completed", "created_at", "completed_at"}
         IN  [ok |-> \A k \in known : has(k) => good(k),
              todo |->
                [ID |-> IF set("id") THEN f["id"].val ELSE 0,
                 Description |-> IF set("description") THEN f["description"].val ELSE <<>>,
                 Completed |-> IF set("completed") THEN f["completed"].val ELSE FALSE,
                 CreatedAt |-> IF set("created_at") THEN ParseTime(f["created_at"])
                               ELSE ZeroTime,
                 CompletedAt |-> IF set("completed_at")
                                 THEN <<ParseTime(f["completed_at"])>> ELSE NilTime]]

ErrRead == "failed to read file"
ErrUnmarshal == "failed to unmarshal todos"
ErrWrite == "failed to write file"

\* json.Unmarshal(data, &todos), todos a nil []Todo: a text that is not JSON and
\* a value that is neither null nor an array are errors; null leaves todos nil;
\* an array is decoded element by element, and an element in error does not
\* stop the decoding of the others.
Unmarshal(doc) ==
    IF doc.kind = "null" THEN [todos |-> <<>>, err |-> NoErr]
    ELSE IF doc.kind # "array" THEN [todos |-> <<>>, err |-> ErrUnmarshal]
    ELSE [todos |-> [i \in 1..Len(doc.elems) |-> UnmarshalTodo(doc.elems[i]).todo],
          err |-> IF \A i \in 1..Len(doc.elems) : UnmarshalTodo(doc.elems[i]).ok
                  THEN NoErr ELSE ErrUnmarshal]

\* The syntax check of json.Unmarshal: no bytes, and a text that is not JSON, are
\* errors ("unexpected end of JSON input", "invalid character").
IsJSON(data) == data # <<>> /\ data[1].kind # "garbage"

\* A bug Load could have: no check for the file of no bytes.
NeverEmptyFile(data) == FALSE

\* Load: if len(data) == 0.
IsEmptyFile(data) == Len(data) = 0

\* A bug Load could have: the todos decoded so far returned with the error.
WithErrorAndTodos(r) == r

\* Load: return nil, fmt.Errorf("failed to unmarshal todos: %w", err).
WithError(r) == [todos |-> <<>>, err |-> r.err]

\* JSONRepository.Load.  readOK: os.ReadFile returns no error.
Load(f, readOK) ==
    IF ~f.exists THEN [todos |-> <<>>, err |-> NoErr]
    ELSE IF ~readOK THEN [todos |-> <<>>, err |-> ErrRead]
    ELSE IF IsEmptyFile(f.data) THEN [todos |-> <<>>, err |-> NoErr]
    ELSE IF ~IsJSON(f.data) THEN [todos |-> <<>>, err |-> ErrUnmarshal]
    ELSE IF Unmarshal(f.data[1]).err # NoErr THEN WithError(Unmarshal(f.data[1]))
    ELSE Unmarshal(f.data[1])

\* How os.WriteFile ends: "ok"; "notopened" (the file cannot be opened or
\* created: nothing changes); "truncated" and "partial" (the file was opened,
\* which empties it, and the write failed at once or part of the way).
WriteOutcomes == {"ok", "notopened", "truncated", "partial"}

\* os.WriteFile(r.filename, data, 0o600).
WriteFile(f, doc, w) ==
    CASE w = "ok" -> [exists |-> TRUE, data |-> <<doc>>]
      [] w = "notopened" -> f
      [] w = "truncated" -> [exists |-> TRUE, data |-> <<>>]
      [] w = "partial" -> [exists |-> TRUE, data |-> <<Garbage>>]

\* JSONRepository.Save.  (json.MarshalIndent fails for no Collection of the model:
\* it fails only for a time whose year is outside 0..9999.)
JSONSave(c, w) ==
    /\ file' = WriteFile(file, MarshalIndent(c), w)
    /\ given' = c
    /\ loaded' = NotLoaded
    /\ last' = Call("Save", 0, "", IF w = "ok" THEN NoErr ELSE ErrWrite, SaveOutcome(w = "ok"))
    /\ UNCHANGED <<todos, nextID, stored, ret, pre, unsaved, watch, added, maxReturned,
                   completedOK, deleted, assigned, printed>>

JSONLoad(readOK) ==
    /\ loaded' = Load(file, readOK)
    /\ last' = Call("Load", 0, "", loaded'.err, "none")
    /\ UNCHANGED <<todos, nextID, stored, ret, pre, unsaved, watch, added, maxReturned,
                   completedOK, deleted, assigned, printed, file, given>>

\* What may be at the filename before the first call: nothing, a file of no
\* bytes, a text that is not JSON, JSON that is not an array of todo records,
\* an array of records with keys missing or unknown.
PriorDocs ==
    {Garbage, JNull, JObject(<<>>), JNumber(1),
     JArray(<<JNumber(1)>>),
     JArray(<<JObject([k \in {"id"} |-> JString(<<"a">>)])>>),
     JArray(<<JObject([k \in {"id"} |-> JNumber(1)]),
              JObject([k \in {"created_at"} |-> JString(<<"a">>)])>>),
     JArray(<<JObject([k \in {"id", "note"} |-> JNumber(2)])>>),
     JArray(<<>>)}

PriorFiles ==
    {NoFile, [exists |-> TRUE, data |-> <<>>]}
        \cup {[exists |-> TRUE, data |-> <<d>>] : d \in PriorDocs}

InitJSON ==
    /\ todos = <<>>
    /\ nextID = 1
    /\ stored = <<>>
    /\ last = Other
    /\ ret = <<>>
    /\ pre = <<>>
    /\ added = FALSE
    /\ maxReturned = 0
    /\ completedOK = "no"
    /\ deleted = "no"
    /\ assigned = NotAssigned
    /\ unsaved = 0
    /\ printed = <<>>
    /\ file \in PriorFiles
    /\ given = <<>>
    /\ loaded = NotLoaded
    /\ watch = Watch("calls", 0)

\* A write that fails leaves the same file whatever Collection was to be
\* written: the failing Saves are those of the empty Collection.
NextJSON ==
    \/ \E c \in JSONCollections : JSONSave(c, "ok")
    \/ \E w \in WriteOutcomes \ {"ok"} : JSONSave(<<>>, w)
    \/ \E readOK \in BOOLEAN : JSONLoad(readOK)

SpecJSON == InitJSON /\ [][NextJSON]_vars

(***************************************************************************)
(* Stats.CompletionRate.  A float64 is modelled as a multiple of 1/Scale   *)
(* (kind "num", n the multiple), as NaN or as an infinity; a quotient is   *)
(* rounded to the nearest multiple, as the division of two float64 is      *)
(* rounded to the nearest float64.                                         *)
(***************************************************************************)

Scale == 2^20

Float(n) == [kind |-> "num", n |-> n]
NaN == [kind |-> "nan", n |-> 0]
Inf == [kind |-> "inf", n |-> 0]

\* float64(c) / float64(t), for c >= 0 and t >= 0: no panic when t is 0.
Quotient(c, t) ==
    IF t = 0 THEN (IF c = 0 THEN NaN ELSE Inf)
    ELSE Float((2 * c * Scale + t) \div (2 * t))

\* x * 100.
Times100(x) == IF x.kind = "num" THEN Float(x.n * 100) ELSE x

\* A bug CompletionRate could have: no check of Total.
CompletionRateUnchecked(s) == Times100(Quotient(s.Completed, s.Total))

\* Stats.CompletionRate.
CompletionRate(s) ==
    IF s.Total = 0 THEN Float(0) ELSE Times100(Quotient(s.Completed, s.Total))

\* The Stats values CompletionRate is called on: those GetStats returns and any
\* other a caller builds (TestStats_CompletionRate).
AnyStats ==
    {[Total |-> t, Completed |-> c, Pending |-> p] : t, c, p \in 0..MaxID}

\* A call of CompletionRate on the value s; what it returns is recorded.
CallCompletionRate(s) ==
    /\ last' = Call("CompletionRate", 0, "", NoErr, "none")
    /\ ret' = <<[stats |-> s, rate |-> CompletionRate(s)]>>
    /\ UNCHANGED <<todos, nextID, stored, pre, unsaved, watch, added, maxReturned,
                   completedOK, deleted, assigned, aside>>

\* The Service over a Repository whose Save succeeds, and the calls of
\* CompletionRate.
InitRate == InitService /\ watch = Watch("stats", 0)

NextRate ==
    \/ Calls /\ unsaved' = 0
    \/ \E s \in AnyStats : CallCompletionRate(s)

SpecRate == InitRate /\ [][NextRate]_vars

(***************************************************************************)
(* The delete command (internal/cli/commands.go), run on a Service that    *)
(* main has constructed over stored data.                                  *)
(***************************************************************************)

\* The descriptions of the stored items the commands run on.
CliDescriptions == {"a", "b"}

\* The Collections the Service writes: identifiers ascending, no identifier twice.
CliCollections ==
    {c \in UNION {[1..n -> {[ID |-> id, Description |-> d, Completed |-> FALSE,
                              CreatedAt |-> "t1", CompletedAt |-> NilTime] :
                                id \in 1..MaxID, d \in CliDescriptions}] : n \in 0..MaxID} :
        \A i, j \in 1..Len(c) : i < j => c[i].ID < c[j].ID}

\* args of a command: none, a number, or a text that is not a number.
NoArg == [kind |-> "none", val |-> 0]
NumberArg(n) == [kind |-> "number", val |-> n]
TextArg == [kind |-> "text", val |-> 0]
DeleteArgs == {NoArg, TextArg} \cup {NumberArg(n) : n \in IdArgs}

\* The array under s.todos after Delete has removed the element i of ts:
\* append(s.todos[:i], s.todos[i+1:]...) moves the elements that follow one
\* place down inside the same array, whose last place keeps what it held.
ArrayAfterDelete(ts, i) == RemoveAt(ts, i) \o <<ts[Len(ts)]>>

\* fmt.Printf("Deleted todo #%d: %s\n", id, todoItem.Description).
DeletedLine(id, description) == [line |-> "Deleted todo", id |-> id, text |-> description]

\* DeleteCommand: todoItem is the pointer GetByID returned, &s.todos[i]; it is
\* read after Delete, when the place it points to holds what Delete left there.
DeleteCommand(arg, saveOK) ==
    IF arg.kind # "number"
    THEN /\ last' = Call("DeleteCommand", 0, "", ErrInvalidInput, "none")
         /\ printed' = <<>>
         /\ pre' = todos
         /\ UNCHANGED <<todos, nextID, stored, ret, unsaved, watch, added, maxReturned,
                        completedOK, deleted, assigned, jsonVars>>
    ELSE LET id == arg.val
             i == IndexOf(todos, id)
         IN  IF GetByID(id).err # NoErr
             THEN /\ last' = Call("DeleteCommand", id, "", GetByID(id).err, "none")
                  /\ printed' = <<>>
                  /\ pre' = todos
                  /\ UNCHANGED <<todos, nextID, stored, ret, unsaved, watch, added,
                                 maxReturned, completedOK, deleted, assigned, jsonVars>>
             ELSE /\ MayFail(saveOK)
                  /\ todos' = RemoveAt(todos, i)
                  /\ stored' = SaveTo(stored, todos', saveOK)
                  /\ unsaved' = UnsavedAfter(saveOK)
                  /\ last' = Call("DeleteCommand", id, "", SaveError(saveOK),
                                  SaveOutcome(saveOK))
                  /\ printed' = IF saveOK
                                THEN <<DeletedLine(id, ArrayAfterDelete(todos, i)[i].Description)>>
                                ELSE <<>>
                  /\ pre' = todos
                  /\ UNCHANGED <<nextID, ret, watch, added, maxReturned, completedOK,
                                 deleted, assigned, jsonVars>>

\* main has constructed the Service over a stored Collection.
InitCli ==
    /\ stored \in CliCollections
    /\ todos = LoadFrom(stored)
    /\ nextID = ScanNextID(todos, 1)
    /\ last = Call("NewService", 0, "", NoErr, "none")
    /\ ret = <<>>
    /\ pre = <<>>
    /\ added = FALSE
    /\ maxReturned = 0
    /\ completedOK = "no"
    /\ deleted = "no"
    /\ assigned = NotAssigned
    /\ unsaved = 0
    /\ printed = <<>>
    /\ file = NoFile
    /\ given = <<>>
    /\ loaded = NotLoaded
    /\ watch = Watch("calls", 0)

NextCli == \E arg \in DeleteArgs, saveOK \in BOOLEAN : DeleteCommand(arg, saveOK)

SpecCli == InitCli /\ [][NextCli]_vars

(***************************************************************************)
(* One Service over any Collection it may have loaded: the identifiers are *)
(* positive, in any order, and may repeat; a Save may fail.                *)
(***************************************************************************)

LoadedCollections == UNION {[1..n -> StoredItems] : n \in 0..MaxSaved}

\* NewService has loaded the Collection the repository holds.
InitLoaded ==
    /\ stored \in LoadedCollections
    /\ todos = LoadTodos(stored, TRUE).todos
    /\ nextID = LoadTodos(stored, TRUE).nextID
    /\ last = Other
    /\ ret = <<>>
    /\ pre = <<>>
    /\ added = FALSE
    /\ maxReturned = 0
    /\ completedOK = "no"
    /\ deleted = "no"
    /\ assigned = NotAssigned
    /\ unsaved = 0
    /\ printed = <<>>
    /\ file = NoFile
    /\ given = <<>>
    /\ loaded = NotLoaded
    /\ watch = Watch("counter", 0)

SpecLoaded == InitLoaded /\ [][Calls]_vars

(***************************************************************************)
(* One Service whose construction could not load what the repository       *)
(* holds: the repository holds items this Service never creates (their     *)
(* Description is one Add is not called with), the Service starts empty.   *)
(***************************************************************************)

UnreadDescription == "b"

UnreadItems ==
    {[ID |-> id, Description |-> UnreadDescription, Completed |-> c, CreatedAt |-> "t1",
      CompletedAt |-> IF c THEN <<"t1">> ELSE NilTime] :
        id \in 1..MaxID, c \in BOOLEAN}

UnreadCollections == UNION {[1..n -> UnreadItems] : n \in 1..MaxSaved}

\* NewService has printed the warning and kept the empty Collection.
InitUnread ==
    /\ stored \in UnreadCollections
    /\ todos = LoadTodos(stored, FALSE).todos
    /\ nextID = LoadTodos(stored, FALSE).nextID
    /\ printed = <<LoadWarning>>
    /\ last = Call("NewService", 0, "", NoErr, "none")
    /\ ret = <<>>
    /\ pre = <<>>
    /\ added = FALSE
    /\ maxReturned = 0
    /\ completedOK = "no"
    /\ deleted = "no"
    /\ assigned = NotAssigned
    /\ unsaved = 0
    /\ file = NoFile
    /\ given = <<>>
    /\ loaded = NotLoaded
    /\ watch = Watch("calls", 0)

SpecUnread == InitUnread /\ [][Calls]_vars

(***************************************************************************)
(* Properties                                                              *)
(***************************************************************************)

Mutators == {"Add", "Complete", "Incomplete", "Delete"}

\* C1 (checked under SpecIds: one Service, constructed over empty storage): every
\* Add of a non-empty description whose Save succeeds returns an item; its
\* identifier is 1 if this is the first Add of the Service and is greater than
\* every identifier an earlier Add returned, whatever Complete, Incomplete and
\* Delete calls came between; the item is pending with no completion timestamp and
\* is the last element of GetAll().
C1_AddIdentifiers ==
    [][(last'.op = "Add" /\ last'.desc # "" /\ last'.save = "ok") =>
          /\ last'.err = NoErr
          /\ Len(ret') = 1
          /\ (~added => ret'[1].ID = 1)
          /\ ret'[1].ID > maxReturned
          /\ ret'[1].Completed = FALSE
          /\ ret'[1].CompletedAt = NilTime
          /\ Len(todos') > 0
          /\ todos'[Len(todos')] = ret'[1]]_vars

\* C1 witness: Add has returned the third identifier after a Delete shortened
\* the Collection.
C1_Witness ==
    /\ last.op = "Add" /\ last.save = "ok"
    /\ Len(ret) = 1 /\ ret[1].ID = 3
    /\ Len(todos) = 1

\* C2: Add("") returns an error and leaves the Collection, the identifier counter
\* and the stored Collection as they were; Save is not called.
C2_AddEmpty ==
    [][(last'.op = "Add" /\ last'.desc = "") =>
          /\ last'.err = ErrInvalidInput
          /\ last'.save = "none"
          /\ ret' = <<>>
          /\ todos' = todos
          /\ nextID' = nextID
          /\ stored' = stored]_vars

\* C2 witness: Add("") was rejected while memory and storage differed.
C2_Witness ==
    /\ last.op = "Add" /\ last.desc = "" /\ last.err = ErrInvalidInput
    /\ Len(todos) > 0
    /\ todos # stored
\* GetByID(id) on the Collection ts returns the item id, completed and stamped.
ShownCompleted(ts, id) ==
    LET r == GetByIDIn(ts, id)
    IN  /\ r.err = NoErr
        /\ Len(r.item) = 1
        /\ r.item[1].ID = id
        /\ r.item[1].Completed = TRUE
        /\ r.item[1].CompletedAt # NilTime

\* The step is a call that changed nothing.
NothingChanged == todos' = todos /\ nextID' = nextID /\ stored' = stored

\* C3 as claimed (checked under SpecDone, for the identifier watch.id): after a
\* successful Complete(id), GetByID(id) returns the item completed and with a
\* completion timestamp; and a Complete(id) that comes after a successful
\* Complete(id) with no Incomplete(id) between them fails with AlreadyInState
\* and changes nothing.
C3_SecondCompleteAsClaimed ==
    [][/\ (last'.op = "Complete" /\ last'.err = NoErr) => ShownCompleted(todos', watch.id)
       /\ (completedOK \in {"yes", "deleted"} /\ last'.op = "Complete") =>
              (last'.err = ErrAlreadyInState /\ NothingChanged)]_vars

\* C3 as amended: the same, for a second Complete(id) with neither an
\* Incomplete(id) nor a Delete(id) since the successful one.
C3_SecondComplete ==
    [][/\ (last'.op = "Complete" /\ last'.err = NoErr) => ShownCompleted(todos', watch.id)
       /\ (completedOK = "yes" /\ last'.op = "Complete") =>
              (last'.err = ErrAlreadyInState /\ NothingChanged)]_vars

\* C3 witness: a second Complete(id) has been rejected with AlreadyInState.
C3_Witness ==
    /\ completedOK = "yes"
    /\ last.op = "Complete" /\ last.id = watch.id /\ last.err = ErrAlreadyInState
    /\ ShownCompleted(todos, watch.id)

\* C4: after a successful Complete(id), a successful Incomplete(id) leaves the
\* Collection exactly as it was before the Complete (the item pending, without
\* completion timestamp, in its place, the rest untouched); a further
\* Incomplete(id) fails with AlreadyInState and changes nothing.
C4_IncompleteInverse ==
    [][/\ (/\ last.op = "Complete" /\ last.err = NoErr
           /\ last'.op = "Incomplete" /\ last'.id = last.id /\ last'.err = NoErr) =>
              /\ todos' = pre
              /\ stored' = pre
              /\ LET r == GetByIDIn(todos', last.id)
                 IN  /\ r.err = NoErr
                     /\ r.item[1].Completed = FALSE
                     /\ r.item[1].CompletedAt = NilTime
       /\ (/\ last.op = "Incomplete" /\ last.err = NoErr
           /\ last'.op = "Incomplete" /\ last'.id = last.id) =>
              (last'.err = ErrAlreadyInState /\ NothingChanged)]_vars

\* C4 witness: Incomplete has succeeded on the second of three items and the
\* third is completed.
C4_Witness ==
    /\ last.op = "Incomplete" /\ last.err = NoErr /\ last.id = 2
    /\ Len(todos) = 3
    /\ todos[3].Completed
    /\ ~todos[2].Completed

\* C5: Delete(id) of an identifier in the Collection removes the one item with
\* that identifier and leaves the others as they were and in their order; a
\* second Delete(id) fails with NotFound; Delete of an identifier that is not in
\* the Collection fails with NotFound and changes nothing.
C5_Delete ==
    [][/\ last'.op = "Delete" =>
              IF \E i \in 1..Len(todos) : todos[i].ID = last'.id
              THEN /\ last'.err # ErrNotFound
                   /\ \E i \in 1..Len(todos) :
                         /\ todos[i].ID = last'.id
                         /\ Len(todos') = Len(todos) - 1
                         /\ \A j \in 1..(i - 1) : todos'[j] = todos[j]
                         /\ \A j \in i..Len(todos') : todos'[j] = todos[j + 1]
                   /\ \A j \in 1..Len(todos') : todos'[j].ID # last'.id
              ELSE last'.err = ErrNotFound /\ NothingChanged
       /\ (/\ last.op = "Delete" /\ last.err # ErrNotFound
           /\ last'.op = "Delete" /\ last'.id = last.id) =>
              (last'.err = ErrNotFound /\ NothingChanged)]_vars

\* C5 witness: Delete has removed the middle one of three items.
C5_Witness ==
    /\ last.op = "Delete" /\ last.err = NoErr /\ last.id = 2
    /\ Len(pre) = 3 /\ pre[2].ID = 2
    /\ Len(todos) = 2 /\ todos[1].ID = 1 /\ todos[2].ID = 3
\* No two items of the Collection ts have the same identifier.
UniqueIDs(ts) == \A i, j \in 1..Len(ts) : ts[i].ID = ts[j].ID => i = j

\* C6: the identifiers in the in-memory Collection are pairwise distinct, and so
\* are those in the stored Collection, in every state reachable through Add,
\* Complete, Incomplete, Delete, failing Saves and restarts.
C6_UniqueIdentifiers == UniqueIDs(todos) /\ UniqueIDs(stored)

\* C6 witness: a Delete whose Save failed has left the items 1 and 3 in memory
\* and three items in storage.
C6_Witness ==
    /\ Len(todos) = 2 /\ todos[1].ID = 1 /\ todos[2].ID = 3
    /\ Len(stored) = 3
    /\ unsaved > 0
    /\ last.op = "Delete"

\* Every item of ts has a completion timestamp exactly when its flag is true.
StampedIffCompleted(ts) ==
    \A i \in 1..Len(ts) : (ts[i].CompletedAt # NilTime) <=> (ts[i].Completed = TRUE)

\* C7: in every reachable state every item, in memory and stored, has a
\* completion timestamp if and only if its completion flag is true.
C7_StampIffCompleted == StampedIffCompleted(todos) /\ StampedIffCompleted(stored)

\* C7 witness: an item is completed in memory and pending in storage, another
\* the other way round.
C7_Witness ==
    /\ Len(todos) >= 2 /\ Len(stored) >= 2
    /\ todos[1].ID = stored[1].ID /\ todos[1].Completed /\ ~stored[1].Completed
    /\ todos[2].ID = stored[2].ID /\ ~todos[2].Completed /\ stored[2].Completed

\* C8: when Add, Complete, Incomplete or Delete returns success, the stored
\* Collection equals the in-memory Collection, whatever came before the call.
C8_SavedOnSuccess ==
    [][(last'.op \in Mutators /\ last'.err = NoErr) =>
          /\ last'.save = "ok"
          /\ stored' = todos'
          /\ Len(stored') = Len(todos')
          /\ \A i \in 1..Len(todos') : stored'[i] = todos'[i]]_vars

\* C8 witness: a Delete has succeeded on a Collection that earlier calls had
\* changed in memory only; both Collections hold the two items left.
C8_Witness ==
    /\ last.op = "Delete" /\ last.err = NoErr
    /\ Len(pre) = 3 /\ pre[1].Completed
    /\ Len(todos) = 2 /\ stored = todos

C11_LoadFails ==
    [][/\ (last'.op = "NewService" /\ printed' = <<LoadWarning>>) =>
              /\ last'.err = NoErr
              /\ todos' = <<>>
              /\ GetStatsOf(todos').Total = 0
              /\ nextID' = 1
              /\ stored' = stored
       /\ (/\ last.op = "NewService" /\ printed = <<LoadWarning>>
           /\ last'.op = "Add" /\ last'.save = "ok") =>
              /\ Len(ret') = 1 /\ ret'[1].ID = 1
              /\ todos' = ret']_vars

\* C11 witness: Load has failed over a repository that holds three items.
C11_Witness ==
    /\ last.op = "NewService" /\ printed = <<LoadWarning>>
    /\ todos = <<>> /\ nextID = 1
    /\ Len(stored) = 3

\* The largest identifier in the non-empty Collection ts.
MaxIdentifier(ts) ==
    CHOOSE m \in {ts[i].ID : i \in 1..Len(ts)} : \A i \in 1..Len(ts) : ts[i].ID <= m

\* C12 (checked under SpecScan, over every Collection of at most MaxLen items
\* with identifiers in 1..MaxID, in any order): after NewService has loaded the
\* stored Collection, the next identifier is one more than the largest
\* identifier in it, and 1 if it is empty.
C12_NextIdentifier ==
    [][last'.op = "NewService" =>
          /\ todos' = stored
          /\ nextID' = IF stored = <<>> THEN 1 ELSE MaxIdentifier(stored) + 1]_vars

\* C12 witness: the Collection loaded has its largest identifier first.
C12_Witness ==
    /\ last.op = "NewService"
    /\ Len(todos) = 3
    /\ todos[1].ID = 3 /\ todos[2].ID = 1 /\ todos[3].ID = 2
    /\ nextID = 4

\* The Collections a and b are equal as the tests compare them: the same length
\* and, place by place, the same identifier, description and flag, creation
\* timestamps that are the same instant, and a completion timestamp in the one
\* exactly when there is one in the other (then the same instant).
SameCollection(a, b) ==
    /\ Len(a) = Len(b)
    /\ \A i \in 1..Len(a) :
          /\ a[i].ID = b[i].ID
          /\ a[i].Description = b[i].Description
          /\ a[i].Completed = b[i].Completed
          /\ Equal(a[i].CreatedAt, b[i].CreatedAt)
          /\ (a[i].CompletedAt = NilTime) <=> (b[i].CompletedAt = NilTime)
          /\ a[i].CompletedAt # NilTime /\ b[i].CompletedAt # NilTime =>
                 Equal(a[i].CompletedAt[1], b[i].CompletedAt[1])

\* C13 (checked under SpecJSON): whatever the file held, a Load that follows a
\* successful Save(c) and can read the file returns no error and a Collection
\* equal to c.
C13_RoundTrip ==
    [][(/\ last.op = "Save" /\ last.err = NoErr
        /\ last'.op = "Load" /\ loaded'.err # ErrRead) =>
          /\ loaded'.err = NoErr
          /\ SameCollection(loaded'.todos, given)]_vars

\* The JSON value doc is a sequence of todo records: null (no sequence, which Go
\* decodes as the nil slice) or an array of which every element is null or an
\* object whose known keys have values of the types of Todo (or null).
IsTodoRecord(e) ==
    \/ e.kind = "null"
    \/ /\ e.kind = "object"
       /\ \A k \in DOMAIN e.fields :
             \/ e.fields[k].kind = "null"
             \/ k = "id" /\ e.fields[k].kind = "number"
             \/ k = "description" /\ e.fields[k].kind = "string"
             \/ k = "completed" /\ e.fields[k].kind = "bool"
             \/ k \in {"created_at", "completed_at"} /\ IsTimeText(e.fields[k])
             \/ k \notin {"id", "description", "completed", "created_at", "completed_at"}

IsTodoRecords(doc) ==
    \/ doc.kind = "null"
    \/ doc.kind = "array" /\ \A i \in 1..Len(doc.elems) : IsTodoRecord(doc.elems[i])

\* C14 (checked under SpecJSON): Load where there is no file, and Load that reads
\* a file of no bytes, return the empty Collection and no error; Load that reads
\* a file whose content is not a sequence of todo records returns an error and
\* no Collection.
C14_LoadCases ==
    [][last'.op = "Load" =>
          /\ ~file.exists => loaded' = [todos |-> <<>>, err |-> NoErr]
          /\ (file.exists /\ file.data = <<>> /\ loaded'.err # ErrRead) =>
                 loaded' = [todos |-> <<>>, err |-> NoErr]
          /\ (/\ file.exists /\ file.data # <<>> /\ loaded'.err # ErrRead
              /\ ~IsTodoRecords(file.data[1])) =>
                 (loaded'.err = ErrUnmarshal /\ loaded'.todos = <<>>)]_vars

\* C14 witness: Load has returned an error for an array of two records of which
\* the first is well formed and the second is not.
C14_Witness ==
    /\ last.op = "Load" /\ loaded.err = ErrUnmarshal /\ loaded.todos = <<>>
    /\ file.exists /\ Len(file.data) = 1
    /\ file.data[1].kind = "array" /\ Len(file.data[1].elems) = 2
    /\ IsTodoRecord(file.data[1].elems[1])

\* C15: in every reachable state, for each flag b, GetByStatus(b) holds only
\* items whose flag is b, holds every such item of the Collection exactly once,
\* and holds them in the order of the Collection; it is empty when no item has
\* the flag b.  (GetByStatus assigns no field and calls no Repository method:
\* CallGetByStatus leaves every variable unchanged.)
C15_GetByStatus ==
    \A b \in BOOLEAN :
        LET r == GetByStatus(b)
            matching == {i \in 1..Len(todos) : todos[i].Completed = b}
        IN  /\ \A k \in 1..Len(r) : r[k].Completed = b
            /\ \A k \in 1..Len(r) : \E i \in matching : todos[i] = r[k]
            /\ \A i \in matching : Cardinality({k \in 1..Len(r) : r[k] = todos[i]}) = 1
            /\ Len(r) = Cardinality(matching)
            /\ \A i, j \in matching : i < j =>
                   \E k, l \in 1..Len(r) : k < l /\ r[k] = todos[i] /\ r[l] = todos[j]
            /\ (matching = {}) => r = <<>>

\* C15 witness: of three items the first and the third are completed, and no
\* stored item is.
C15_Witness ==
    /\ Len(todos) = 3
    /\ GetByStatus(TRUE) = <<todos[1], todos[3]>>
    /\ GetByStatus(FALSE) = <<todos[2]>>
    /\ FilterByStatus(stored, TRUE) = <<>>

\* C16: in every reachable state GetStats returns the number of items as Total,
\* the number of items whose flag is true as Completed, the number whose flag is
\* false as Pending, so that Total = Completed + Pending; all three are 0 on the
\* empty Collection.
C16_GetStats ==
    /\ GetStats.Total = Len(todos)
    /\ GetStats.Completed = Cardinality({i \in 1..Len(todos) : todos[i].Completed})
    /\ GetStats.Pending = Cardinality({i \in 1..Len(todos) : ~todos[i].Completed})
    /\ GetStats.Total = GetStats.Completed + GetStats.Pending
    /\ todos = <<>> => GetStats = [Total |-> 0, Completed |-> 0, Pending |-> 0]

\* C16 witness: three items, one of them completed.
C16_Witness ==
    /\ GetStats = [Total |-> 3, Completed |-> 1, Pending |-> 2]
    /\ todos[2].Completed

\* GetByID(id) succeeds exactly when the Collection holds an item with the
\* identifier id, and then returns an item with that identifier.
FoundIffPresent ==
    \A id \in IdArgs :
        LET r == GetByID(id)
            present == \E i \in 1..Len(todos) : todos[i].ID = id
        IN  /\ r.err \in {NoErr, ErrNotFound}
            /\ r.err = NoErr <=> present
            /\ r.err = NoErr => (Len(r.item) = 1 /\ r.item[1].ID = id
                                 /\ \E i \in 1..Len(todos) : todos[i] = r.item[1])
            /\ r.err = ErrNotFound => r.item = <<>>

\* C17 as claimed (checked under SpecGone, for the identifier watch.id): in every
\* reachable state GetByID(id) succeeds exactly when the item is in the
\* Collection; and once Delete has removed the item with an identifier (and the
\* removal was not lost in a restart), GetByID of that identifier fails with
\* NotFound in every later state.
C17_GetByIDAsClaimed ==
    /\ FoundIffPresent
    /\ deleted \in {"here", "earlier"} => GetByID(watch.id).err = ErrNotFound

\* C17 as amended: the same, for the states of the Service that deleted the
\* item.  (A Service constructed later takes its counter from the stored
\* Collection and may assign the identifier to a new item.)
C17_GetByID ==
    /\ FoundIffPresent
    /\ deleted = "here" => GetByID(watch.id).err = ErrNotFound

\* C17 witness: the item watched has been deleted by this Service, which holds
\* two other items; GetByID finds those and not the deleted one.
C17_Witness ==
    /\ deleted = "here"
    /\ Len(todos) = 2
    /\ GetByID(watch.id).err = ErrNotFound
    /\ GetByID(todos[2].ID).item = <<todos[2]>>

\* C18 (checked under SpecCli): when the delete command succeeds for an
\* identifier of the Collection, wherever the item stands in it, the line it
\* prints carries the description the deleted item had.
C18_DeleteReportsDescription ==
    [][(last'.op = "DeleteCommand" /\ last'.err = NoErr) =>
          /\ GetByIDIn(todos, last'.id).err = NoErr
          /\ GetByIDIn(todos', last'.id).err = ErrNotFound
          /\ printed' = <<DeletedLine(last'.id,
                                      GetByIDIn(todos, last'.id).item[1].Description)>>]_vars

\* In this step every item that is in the Collection before and after it keeps
\* its flag and its completion timestamp, unless the step is a Complete or an
\* Incomplete that names the item: its flag goes from false to true only in
\* such a Complete, from true to false only in such an Incomplete.
FlagsFollowCalls ==
    \A i \in 1..Len(todos), j \in 1..Len(todos') :
        todos[i].ID = todos'[j].ID =>
            /\ (~todos[i].Completed /\ todos'[j].Completed) =>
                   (last'.op = "Complete" /\ last'.id = todos[i].ID)
            /\ (todos[i].Completed /\ ~todos'[j].Completed) =>
                   (last'.op = "Incomplete" /\ last'.id = todos[i].ID)
            /\ ~(last'.op \in {"Complete", "Incomplete"} /\ last'.id = todos[i].ID) =>
                   /\ todos'[j].Completed = todos[i].Completed
                   /\ todos'[j].CompletedAt = todos[i].CompletedAt

\* The item an Add has appended is pending and has no completion timestamp.
CreatedPending ==
    (last'.op = "Add" /\ last'.err # ErrInvalidInput) =>
        /\ Len(todos') = Len(todos) + 1
        /\ todos'[Len(todos')].Completed = FALSE
        /\ todos'[Len(todos')].CompletedAt = NilTime

\* C19 as claimed: in every step, FlagsFollowCalls and CreatedPending.
C19_ItemStatesAsClaimed == [][FlagsFollowCalls /\ CreatedPending]_vars

\* C19 as amended: the same in every step that is a call of the Service.  (The
\* step that constructs the Service anew takes the items from the stored
\* Collection, with the flags that were last saved.)
C19_ItemStates ==
    [][last'.op # "NewService" => (FlagsFollowCalls /\ CreatedPending)]_vars

\* C19 witness: Complete(2) has succeeded between a completed first item and a
\* pending third one.
C19_Witness ==
    /\ last.op = "Complete" /\ last.id = 2 /\ last.err = NoErr
    /\ Len(todos) = 3 /\ Len(pre) = 3
    /\ todos[1].Completed /\ todos[2].Completed /\ ~todos[3].Completed
    /\ ~pre[2].Completed

\* C20 (checked under SpecRate): CompletionRate returns 0 when Total is 0, 100
\* when Completed equals a Total that is not 0, 0 when Completed is 0, and, for
\* the Stats that GetStats returns for the Collection, a number from 0 to 100.
C20_CompletionRate ==
    [][last'.op = "CompletionRate" =>
          LET s == ret'[1].stats
              r == ret'[1].rate
          IN  /\ s.Total = 0 => r = Float(0)
              /\ (s.Total # 0 /\ s.Completed = s.Total) => r = Float(100 * Scale)
              /\ s.Completed = 0 => r = Float(0)
              /\ s = GetStatsOf(todos') =>
                     (r.kind = "num" /\ 0 <= r.n /\ r.n <= 100 * Scale)]_vars

\* C20 witness: the rate of three items, one of them completed, lies strictly
\* between 33 and 34.
C20_Witness ==
    /\ last.op = "CompletionRate"
    /\ ret[1].stats = GetStats
    /\ GetStats = [Total |-> 3, Completed |-> 1, Pending |-> 2]
    /\ 33 * Scale < ret[1].rate.n /\ ret[1].rate.n < 34 * Scale

C22_Rejections ==
    [][last'.op \in {"Complete", "Incomplete", "Delete"} =>
          LET present == GetByIDIn(todos, last'.id).err = NoErr
          IN  /\ last'.err \in {ErrNotFound, ErrAlreadyInState} =>
                     (NothingChanged /\ last'.save = "none")
              /\ ~present <=> last'.err = ErrNotFound
              /\ last'.err = ErrAlreadyInState =>
                     /\ last'.op \in {"Complete", "Incomplete"}
                     /\ present
                     /\ GetByIDIn(todos, last'.id).item[1].Completed
                            = (last'.op = "Complete")]_vars

\* C22 witness: Incomplete of a pending item has been rejected while memory and
\* storage differed.
C22_Witness ==
    /\ last.op = "Incomplete" /\ last.err = ErrAlreadyInState
    /\ unsaved > 0 /\ todos # stored
    /\ Len(todos) = 2

\* This step is an Add that gives the identifier watch.id to a new item.
AssignsWatched ==
    /\ last'.op = "Add" /\ last'.err # ErrInvalidInput
    /\ Len(todos') = Len(todos) + 1
    /\ todos'[Len(todos')].ID = watch.id

\* C23 as claimed (checked under SpecReuse, for the identifier watch.id): whatever
\* Delete calls and restarts came before, Add gives an identifier to a new item
\* only if no earlier Add, of this Service or of an earlier one over the same
\* storage, has given it to an item.
C23_NoReuseAsClaimed ==
    [][AssignsWatched => (assigned.here = "no" /\ ~assigned.earlier)]_vars

\* C23 as amended: Add gives an identifier to a new item only if no earlier Add
\* of the same Service has given it to an item and no item of the Collection
\* has it.  (After a restart the counter is one more than the largest stored
\* identifier: identifiers deleted above it are assigned again.)
C23_NoReuse ==
    [][AssignsWatched =>
          /\ assigned.here = "no"
          /\ GetByIDIn(todos, watch.id).err = ErrNotFound
          /\ watch.id = nextID
          /\ nextID' > nextID]_vars

\* C23 witness: after a restart, Add has assigned the identifier 3 for the first
\* time, next to the reloaded item 2; the item 1 is deleted.
C23_Witness ==
    /\ watch.id = 3
    /\ assigned = [here |-> "returned", earlier |-> FALSE]
    /\ last.op = "Add"
    /\ Len(todos) = 2 /\ todos[1].ID = 2 /\ todos[2].ID = 3
    /\ ~added

\* The counter is positive and above the identifier of every item held.
CounterAbove == nextID >= 1 /\ \A i \in 1..Len(todos) : todos[i].ID < nextID

\* C24 (checked under SpecLoaded: one Service, over any loaded Collection, its
\* Saves failing or not): no call lowers the next-identifier counter; before and
\* after every call the counter is at least 1 and greater than the identifier of
\* every item of the in-memory Collection.
C24_Counter == [][nextID' >= nextID /\ CounterAbove /\ CounterAbove']_vars

\* C24 witness: the Service loaded the items 2 and 1, in that order; an Add whose
\* Save failed has appended the item 3 and a Delete whose Save failed has removed
\* the item 2; the counter is 4.
C24_Witness ==
    /\ watch.kind = "counter"
    /\ Len(stored) = 2 /\ stored[1].ID = 2 /\ stored[2].ID = 1
    /\ unsaved = 2
    /\ Len(todos) = 2 /\ todos[1].ID = 1 /\ todos[2].ID = 3
    /\ nextID = 4

\* The items of ts that the Service could not load at construction.
Unread(ts) == {ts[i] : i \in {j \in 1..Len(ts) : ts[j].Description = UnreadDescription}}

\* C25 (checked under SpecUnread: the Load of the construction failed on stored
\* items, the Service started empty): a mutating call whose Save succeeds leaves
\* in the repository exactly the in-memory Collection, which a Load then returns;
\* the first such call finds the unread items still stored and leaves none of
\* them; until then they stay stored.
C25_Overwrite ==
    [][/\ (last'.op \in Mutators /\ last'.save = "ok") =>
              /\ stored' = todos'
              /\ LoadFrom(stored') = todos'
              /\ Unread(LoadFrom(stored')) = {}
       /\ last'.save # "ok" => stored' = stored
       /\ Unread(todos) = {}
       /\ Unread(stored) # {} => Unread(stored) = {stored[i] : i \in 1..Len(stored)}]_vars

\* C25 witness: the first Save that succeeded was that of the second Add; the
\* repository now holds the two items the Service created, and nothing else.
C25_Witness ==
    /\ printed = <<LoadWarning>>
    /\ last.op = "Add" /\ last.save = "ok"
    /\ nextID = 3
    /\ Len(pre) = 1
    /\ Len(stored) = 2 /\ stored = todos
    /\ Unread(stored) = {}

\* C26: a Complete or an Incomplete that returns no error changes the completion
\* flag and the completion timestamp of the item with the identifier, and nothing
\* else: the Collection has the same length, every other item stays what and
\* where it was, the item keeps its identifier, description and creation
\* timestamp, and the next-identifier counter is unchanged.
C26_Frame ==
    [][(last'.op \in {"Complete", "Incomplete"} /\ last'.err = NoErr) =>
          LET i == IndexOf(todos, last'.id)
          IN  /\ i # 0
              /\ Len(todos') = Len(todos)
              /\ \A j \in 1..Len(todos) : j # i => todos'[j] = todos[j]
              /\ todos'[i].ID = todos[i].ID
              /\ todos'[i].Description = todos[i].Description
              /\ todos'[i].CreatedAt = todos[i].CreatedAt
              /\ todos'[i].Completed = ~todos[i].Completed
              /\ DOMAIN todos'[i] = DOMAIN todos[i]
              /\ nextID' = nextID]_vars

\* C26 witness: Incomplete(2) has succeeded on the second of three items; the
\* first, completed, and the third, pending, are what they were.
C26_Witness ==
    /\ last.op = "Incomplete" /\ last.id = 2 /\ last.err = NoErr
    /\ Len(todos) = 3 /\ Len(pre) = 3
    /\ pre[2].Completed /\ ~todos[2].Completed /\ todos[2].Description = "a"
    /\ todos[1] = pre[1] /\ todos[1].Completed
    /\ todos[3] = pre[3] /\ ~todos[3].Completed
    /\ nextID = 4

====
